---- MODULE Spec2Model ----
(***************************************************************************)
(* State-machine model of fasttext::Model (src/src/model.cc): the training *)
(* step, the three loss strategies, the Huffman tree, the negative table   *)
(* and k-best prediction.                                                  *)
(*                                                                         *)
(* Numbers.  The C++ type `real` is modelled in fixed point: the integer n *)
(* stands for the real n / ONE, with ONE = 512, the resolution of the      *)
(* program's own lookup tables.  std::exp and std::log are tabulated on    *)
(* that grid.  std::vector is a sequence; element i of the source is       *)
(* element i + 1 of the sequence (see At).                                 *)
(***************************************************************************)
EXTENDS Integers, Sequences, FiniteSets, TLC

VARIABLES
  args,        \* args_: [loss, model, neg, dim]
  osz_,        \* number of output rows, wo->size(0)
  wi_,         \* embedding matrix, one row per input token
  wo_,         \* output matrix, one row per class / internal tree node
  hidden_,     \* hidden scratch vector
  output_,     \* output scratch vector
  grad_,       \* gradient accumulator
  loss_,       \* cumulative loss
  nexamples_,  \* example counter
  negatives_,  \* negative-sampling table
  negpos,      \* rotating cursor into negatives_
  tree,        \* Huffman tree nodes
  paths,       \* per-leaf path of internal nodes (offset by -osz_)
  codes,       \* per-leaf code bits
  heap,        \* the caller's result vector of predict
  frame,       \* activation record of a getNegative call in progress
  last         \* record of the most recent call: arguments and trace

vars == <<args, osz_, wi_, wo_, hidden_, output_, grad_, loss_, nexamples_,
          negatives_, negpos, tree, paths, codes, heap, frame, last>>

----------------------------------------------------------------------------
(* Program constants                                                       *)

SIGMOID_TABLE_SIZE == 512
MAX_SIGMOID == 8
LOG_TABLE_SIZE == 512

(* Bounds of the model                                                     *)

\* largest number of output classes (osz_) explored for tree construction
MaxOsz == 4
\* largest class count passed to setTargetCounts
MaxCount == 4
\* scaled-down size of the negative table (NEGATIVE_TABLE_SIZE of model.h)
NEGATIVE_TABLE_SIZE == 2
\* updates explored from construction
MaxUpdates == 2
\* largest class count explored for the negative table
MaxNegCount == 3
\* largest k passed to predict
MaxK == 3

(* Fixed point                                                             *)

ONE == LOG_TABLE_SIZE
Mul(a, b) == (a * b) \div ONE
Div(a, b) == (a * ONE) \div b
Real(n) == n * ONE

At(v, i) == v[i + 1]
Last(v) == v[Len(v)]


----------------------------------------------------------------------------
(* Numeric approximation tables and the libm functions, on the grid.       *)

\* initSigmoid: entry i is 1 / (1 + exp(-x)) at x = i * 2 * MAX_SIGMOID /
\* SIGMOID_TABLE_SIZE - MAX_SIGMOID, i = 0 .. SIGMOID_TABLE_SIZE.
t_sigmoid_ ==
  <<
    0, 0, 0, 0, 0, 0, 0, 0, 0, 0, 0, 0, 0, 0, 0, 0, 0, 0, 0, 0, 0, 0, 0, 0,
    0, 0, 0, 0, 0, 0, 0, 0, 0, 0, 0, 1, 1, 1, 1, 1, 1, 1, 1, 1, 1, 1, 1, 1,
    1, 1, 1, 1, 1, 1, 1, 1, 1, 1, 1, 1, 1, 1, 1, 1, 1, 1, 1, 1, 1, 1, 2, 2,
    2, 2, 2, 2, 2, 2, 2, 2, 2, 2, 2, 2, 2, 2, 3, 3, 3, 3, 3, 3, 3, 3, 3, 3,
    3, 4, 4, 4, 4, 4, 4, 4, 4, 5, 5, 5, 5, 5, 5, 5, 6, 6, 6, 6, 6, 7, 7, 7,
    7, 7, 8, 8, 8, 8, 9, 9, 9, 9, 10, 10, 10, 11, 11, 11, 12, 12, 13, 13, 13,
    14, 14, 15, 15, 15, 16, 16, 17, 17, 18, 19, 19, 20, 20, 21, 22, 22, 23,
    24, 24, 25, 26, 27, 27, 28, 29, 30, 31, 32, 33, 34, 35, 36, 37, 38, 39,
    40, 41, 42, 44, 45, 46, 47, 49, 50, 52, 53, 55, 56, 58, 59, 61, 63, 64,
    66, 68, 70, 72, 74, 76, 78, 80, 82, 84, 86, 89, 91, 93, 96, 98, 101, 103,
    106, 109, 111, 114, 117, 120, 123, 125, 128, 131, 135, 138, 141, 144,
    147, 151, 154, 157, 161, 164, 168, 171, 175, 179, 182, 186, 190, 193,
    197, 201, 205, 209, 212, 216, 220, 224, 228, 232, 236, 240, 244, 248,
    252, 256, 260, 264, 268, 272, 276, 280, 284, 288, 292, 296, 300, 303,
    307, 311, 315, 319, 322, 326, 330, 333, 337, 341, 344, 348, 351, 355,
    358, 361, 365, 368, 371, 374, 377, 381, 384, 387, 389, 392, 395, 398,
    401, 403, 406, 409, 411, 414, 416, 419, 421, 423, 426, 428, 430, 432,
    434, 436, 438, 440, 442, 444, 446, 448, 449, 451, 453, 454, 456, 457,
    459, 460, 462, 463, 465, 466, 467, 468, 470, 471, 472, 473, 474, 475,
    476, 477, 478, 479, 480, 481, 482, 483, 484, 485, 485, 486, 487, 488,
    488, 489, 490, 490, 491, 492, 492, 493, 493, 494, 495, 495, 496, 496,
    497, 497, 497, 498, 498, 499, 499, 499, 500, 500, 501, 501, 501, 502,
    502, 502, 503, 503, 503, 503, 504, 504, 504, 504, 505, 505, 505, 505,
    505, 506, 506, 506, 506, 506, 507, 507, 507, 507, 507, 507, 507, 508,
    508, 508, 508, 508, 508, 508, 508, 509, 509, 509, 509, 509, 509, 509,
    509, 509, 509, 509, 510, 510, 510, 510, 510, 510, 510, 510, 510, 510,
    510, 510, 510, 510, 510, 510, 511, 511, 511, 511, 511, 511, 511, 511,
    511, 511, 511, 511, 511, 511, 511, 511, 511, 511, 511, 511, 511, 511,
    511, 511, 511, 511, 511, 511, 511, 511, 511, 511, 511, 511, 511, 512,
    512, 512, 512, 512, 512, 512, 512, 512, 512, 512, 512, 512, 512, 512,
    512, 512, 512, 512, 512, 512, 512, 512, 512, 512, 512, 512, 512, 512,
    512, 512, 512, 512, 512, 512
  >>

\* initLog: entry i is ln((i + 1e-5) / LOG_TABLE_SIZE), i = 0 .. LOG_TABLE_SIZE.
t_log_ ==
  <<
    -9089, -3194, -2839, -2632, -2484, -2370, -2277, -2198, -2129, -2069,
    -2015, -1966, -1922, -1881, -1843, -1808, -1774, -1743, -1714, -1686,
    -1660, -1635, -1611, -1589, -1567, -1546, -1526, -1507, -1488, -1470,
    -1453, -1436, -1420, -1404, -1389, -1374, -1359, -1345, -1332, -1318,
    -1305, -1293, -1280, -1268, -1257, -1245, -1234, -1223, -1212, -1201,
    -1191, -1181, -1171, -1161, -1152, -1142, -1133, -1124, -1115, -1106,
    -1098, -1089, -1081, -1073, -1065, -1057, -1049, -1041, -1034, -1026,
    -1019, -1012, -1004, -997, -990, -983, -977, -970, -963, -957, -950,
    -944, -938, -932, -925, -919, -913, -907, -902, -896, -890, -884, -879,
    -873, -868, -862, -857, -852, -847, -841, -836, -831, -826, -821, -816,
    -811, -806, -802, -797, -792, -787, -783, -778, -774, -769, -765, -760,
    -756, -751, -747, -743, -739, -734, -730, -726, -722, -718, -714, -710,
    -706, -702, -698, -694, -690, -686, -683, -679, -675, -671, -668, -664,
    -660, -657, -653, -649, -646, -642, -639, -635, -632, -629, -625, -622,
    -618, -615, -612, -608, -605, -602, -599, -596, -592, -589, -586, -583,
    -580, -577, -574, -571, -568, -564, -561, -559, -556, -553, -550, -547,
    -544, -541, -538, -535, -532, -530, -527, -524, -521, -518, -516, -513,
    -510, -508, -505, -502, -500, -497, -494, -492, -489, -486, -484, -481,
    -479, -476, -474, -471, -469, -466, -464, -461, -459, -456, -454, -451,
    -449, -447, -444, -442, -440, -437, -435, -432, -430, -428, -426, -423,
    -421, -419, -416, -414, -412, -410, -408, -405, -403, -401, -399, -397,
    -394, -392, -390, -388, -386, -384, -382, -379, -377, -375, -373, -371,
    -369, -367, -365, -363, -361, -359, -357, -355, -353, -351, -349, -347,
    -345, -343, -341, -339, -337, -335, -333, -331, -330, -328, -326, -324,
    -322, -320, -318, -316, -315, -313, -311, -309, -307, -305, -304, -302,
    -300, -298, -296, -295, -293, -291, -289, -288, -286, -284, -282, -281,
    -279, -277, -275, -274, -272, -270, -269, -267, -265, -264, -262, -260,
    -259, -257, -255, -254, -252, -250, -249, -247, -245, -244, -242, -241,
    -239, -237, -236, -234, -233, -231, -230, -228, -226, -225, -223, -222,
    -220, -219, -217, -216, -214, -213, -211, -210, -208, -207, -205, -204,
    -202, -201, -199, -198, -196, -195, -193, -192, -190, -189, -187, -186,
    -185, -183, -182, -180, -179, -178, -176, -175, -173, -172, -170, -169,
    -168, -166, -165, -164, -162, -161, -159, -158, -157, -155, -154, -153,
    -151, -150, -149, -147, -146, -145, -143, -142, -141, -139, -138, -137,
    -135, -134, -133, -132, -130, -129, -128, -126, -125, -124, -123, -121,
    -120, -119, -118, -116, -115, -114, -113, -111, -110, -109, -108, -106,
    -105, -104, -103, -101, -100, -99, -98, -97, -95, -94, -93, -92, -91,
    -89, -88, -87, -86, -85, -83, -82, -81, -80, -79, -78, -76, -75, -74,
    -73, -72, -71, -70, -68, -67, -66, -65, -64, -63, -62, -60, -59, -58,
    -57, -56, -55, -54, -53, -52, -50, -49, -48, -47, -46, -45, -44, -43,
    -42, -41, -39, -38, -37, -36, -35, -34, -33, -32, -31, -30, -29, -28,
    -27, -26, -25, -24, -22, -21, -20, -19, -18, -17, -16, -15, -14, -13,
    -12, -11, -10, -9, -8, -7, -6, -5, -4, -3, -2, -1, 0
  >>

\* std::exp at x = i / 32 - 8, i = 0 .. 512.
ExpTable ==
  <<
    0, 0, 0, 0, 0, 0, 0, 0, 0, 0, 0, 0, 0, 0, 0, 0, 0, 0, 0, 0, 0, 0, 0, 0,
    0, 0, 0, 0, 0, 0, 0, 0, 0, 0, 0, 1, 1, 1, 1, 1, 1, 1, 1, 1, 1, 1, 1, 1,
    1, 1, 1, 1, 1, 1, 1, 1, 1, 1, 1, 1, 1, 1, 1, 1, 1, 1, 1, 1, 1, 1, 2, 2,
    2, 2, 2, 2, 2, 2, 2, 2, 2, 2, 2, 2, 2, 2, 3, 3, 3, 3, 3, 3, 3, 3, 3, 3,
    3, 4, 4, 4, 4, 4, 4, 4, 4, 5, 5, 5, 5, 5, 5, 6, 6, 6, 6, 6, 6, 7, 7, 7,
    7, 8, 8, 8, 8, 9, 9, 9, 9, 10, 10, 10, 11, 11, 11, 12, 12, 12, 13, 13,
    14, 14, 15, 15, 15, 16, 16, 17, 18, 18, 19, 19, 20, 20, 21, 22, 22, 23,
    24, 25, 25, 26, 27, 28, 29, 30, 31, 32, 33, 34, 35, 36, 37, 38, 39, 41,
    42, 43, 45, 46, 48, 49, 51, 52, 54, 56, 57, 59, 61, 63, 65, 67, 69, 71,
    74, 76, 79, 81, 84, 86, 89, 92, 95, 98, 101, 104, 107, 111, 114, 118,
    122, 125, 129, 134, 138, 142, 147, 151, 156, 161, 166, 171, 177, 183,
    188, 194, 201, 207, 213, 220, 227, 234, 242, 250, 257, 266, 274, 283,
    292, 301, 311, 320, 331, 341, 352, 363, 375, 386, 399, 411, 424, 438,
    452, 466, 481, 496, 512, 528, 545, 562, 580, 599, 618, 637, 657, 678,
    700, 722, 745, 769, 793, 818, 844, 871, 899, 927, 957, 987, 1018, 1051,
    1084, 1118, 1154, 1190, 1228, 1267, 1307, 1349, 1392, 1436, 1482, 1529,
    1577, 1627, 1679, 1732, 1787, 1844, 1902, 1963, 2025, 2089, 2156, 2224,
    2295, 2367, 2443, 2520, 2600, 2683, 2768, 2856, 2946, 3040, 3136, 3236,
    3339, 3445, 3554, 3667, 3783, 3903, 4027, 4155, 4287, 4423, 4563, 4708,
    4858, 5012, 5171, 5335, 5505, 5679, 5860, 6046, 6237, 6435, 6640, 6850,
    7068, 7292, 7524, 7763, 8009, 8263, 8526, 8796, 9075, 9364, 9661, 9967,
    10284, 10610, 10947, 11295, 11653, 12023, 12405, 12798, 13205, 13624,
    14056, 14502, 14963, 15438, 15928, 16433, 16955, 17493, 18049, 18622,
    19213, 19823, 20452, 21101, 21771, 22462, 23175, 23911, 24670, 25453,
    26261, 27094, 27954, 28842, 29757, 30702, 31676, 32682, 33719, 34790,
    35894, 37033, 38209, 39422, 40673, 41964, 43296, 44671, 46089, 47552,
    49061, 50619, 52225, 53883, 55594, 57358, 59179, 61058, 62996, 64996,
    67059, 69187, 71384, 73650, 75988, 78400, 80888, 83456, 86105, 88838,
    91658, 94568, 97570, 100667, 103863, 107160, 110561, 114071, 117692,
    121428, 125282, 129259, 133362, 137596, 141963, 146470, 151119, 155916,
    160866, 165972, 171241, 176676, 182285, 188071, 194041, 200200, 206556,
    213112, 219877, 226857, 234058, 241488, 249154, 257063, 265223, 273642,
    282328, 291290, 300537, 310077, 319919, 330075, 340553, 351363, 362516,
    374024, 385897, 398146, 410785, 423824, 437278, 451159, 465480, 480256,
    495501, 511230, 527458, 544201, 561476, 579299, 597688, 616661, 636236,
    656432, 677270, 698768, 720950, 743835, 767447, 791808, 816943, 842876,
    869631, 897236, 925718, 955103, 985421, 1016702, 1048976, 1082274,
    1116629, 1152074, 1188645, 1226377, 1265306, 1305471, 1346911, 1389667,
    1433780, 1479293, 1526250
  >>

\* ln(x + 1e-5) at x = i / ONE, i = 0 .. ONE.
StdLogTable ==
  <<
    -5895, -3191, -2838, -2631, -2484, -2369, -2276, -2197, -2129, -2069,
    -2015, -1966, -1922, -1881, -1843, -1807, -1774, -1743, -1714, -1686,
    -1660, -1635, -1611, -1589, -1567, -1546, -1526, -1506, -1488, -1470,
    -1453, -1436, -1419, -1404, -1388, -1374, -1359, -1345, -1332, -1318,
    -1305, -1293, -1280, -1268, -1256, -1245, -1234, -1223, -1212, -1201,
    -1191, -1181, -1171, -1161, -1152, -1142, -1133, -1124, -1115, -1106,
    -1098, -1089, -1081, -1073, -1065, -1057, -1049, -1041, -1034, -1026,
    -1019, -1011, -1004, -997, -990, -983, -977, -970, -963, -957, -950,
    -944, -938, -932, -925, -919, -913, -907, -902, -896, -890, -884, -879,
    -873, -868, -862, -857, -852, -846, -841, -836, -831, -826, -821, -816,
    -811, -806, -802, -797, -792, -787, -783, -778, -774, -769, -765, -760,
    -756, -751, -747, -743, -739, -734, -730, -726, -722, -718, -714, -710,
    -706, -702, -698, -694, -690, -686, -683, -679, -675, -671, -668, -664,
    -660, -657, -653, -649, -646, -642, -639, -635, -632, -629, -625, -622,
    -618, -615, -612, -608, -605, -602, -599, -596, -592, -589, -586, -583,
    -580, -577, -574, -571, -567, -564, -561, -558, -556, -553, -550, -547,
    -544, -541, -538, -535, -532, -530, -527, -524, -521, -518, -516, -513,
    -510, -508, -505, -502, -500, -497, -494, -492, -489, -486, -484, -481,
    -479, -476, -474, -471, -469, -466, -464, -461, -459, -456, -454, -451,
    -449, -447, -444, -442, -440, -437, -435, -432, -430, -428, -426, -423,
    -421, -419, -416, -414, -412, -410, -407, -405, -403, -401, -399, -397,
    -394, -392, -390, -388, -386, -384, -382, -379, -377, -375, -373, -371,
    -369, -367, -365, -363, -361, -359, -357, -355, -353, -351, -349, -347,
    -345, -343, -341, -339, -337, -335, -333, -331, -330, -328, -326, -324,
    -322, -320, -318, -316, -315, -313, -311, -309, -307, -305, -304, -302,
    -300, -298, -296, -295, -293, -291, -289, -288, -286, -284, -282, -281,
    -279, -277, -275, -274, -272, -270, -269, -267, -265, -264, -262, -260,
    -259, -257, -255, -254, -252, -250, -249, -247, -245, -244, -242, -241,
    -239, -237, -236, -234, -233, -231, -230, -228, -226, -225, -223, -222,
    -220, -219, -217, -216, -214, -213, -211, -210, -208, -207, -205, -204,
    -202, -201, -199, -198, -196, -195, -193, -192, -190, -189, -187, -186,
    -185, -183, -182, -180, -179, -177, -176, -175, -173, -172, -170, -169,
    -168, -166, -165, -164, -162, -161, -159, -158, -157, -155, -154, -153,
    -151, -150, -149, -147, -146, -145, -143, -142, -141, -139, -138, -137,
    -135, -134, -133, -132, -130, -129, -128, -126, -125, -124, -123, -121,
    -120, -119, -118, -116, -115, -114, -112, -111, -110, -109, -108, -106,
    -105, -104, -103, -101, -100, -99, -98, -97, -95, -94, -93, -92, -91,
    -89, -88, -87, -86, -85, -83, -82, -81, -80, -79, -78, -76, -75, -74,
    -73, -72, -71, -70, -68, -67, -66, -65, -64, -63, -62, -60, -59, -58,
    -57, -56, -55, -54, -53, -52, -50, -49, -48, -47, -46, -45, -44, -43,
    -42, -41, -39, -38, -37, -36, -35, -34, -33, -32, -31, -30, -29, -28,
    -27, -26, -25, -24, -22, -21, -20, -19, -18, -17, -16, -15, -14, -13,
    -12, -11, -10, -9, -8, -7, -6, -5, -4, -3, -2, -1, 0
  >>

\* Model::sigmoid
sigmoid(x) ==
  IF x < -Real(MAX_SIGMOID) THEN 0
  ELSE IF x > Real(MAX_SIGMOID) THEN ONE
  ELSE At(t_sigmoid_,
          ((x + Real(MAX_SIGMOID)) * SIGMOID_TABLE_SIZE)
             \div (Real(MAX_SIGMOID) * 2))

\* Model::log
log(x) ==
  IF x > ONE THEN 0 ELSE At(t_log_, (x * LOG_TABLE_SIZE) \div ONE)

\* Model::std_log, for x in [0, 1]
std_log(x) == At(StdLogTable, x)

\* std::exp, saturating outside [-8, 8]
exp(x) ==
  IF x < -Real(MAX_SIGMOID) THEN 0
  ELSE IF x > Real(MAX_SIGMOID) THEN Last(ExpTable)
  ELSE At(ExpTable,
          ((x + Real(MAX_SIGMOID)) * SIGMOID_TABLE_SIZE)
             \div (Real(MAX_SIGMOID) * 2))

----------------------------------------------------------------------------
(* Vector and Matrix primitives (external collaborators)                   *)

RECURSIVE SumSeq(_)
SumSeq(s) == IF s = <<>> THEN 0 ELSE Head(s) + SumSeq(Tail(s))

\* Vector::zero
Zero(n) == [d \in 1..n |-> 0]

\* Matrix::dotRow(vec, i)
dotRow(m, vec, i) ==
  SumSeq([d \in 1..Len(vec) |-> At(m, i)[d] * vec[d]]) \div ONE

\* Vector::addRow(m, i, a): vec += a * m[i]
vecAddRow(vec, m, i, a) == [d \in 1..Len(vec) |-> vec[d] + Mul(a, At(m, i)[d])]

\* Matrix::addRow(vec, i, a): m[i] += a * vec
matAddRow(m, vec, i, a) ==
  [m EXCEPT ![i + 1] = [d \in 1..Len(vec) |-> @[d] + Mul(a, vec[d])]]

\* Vector::mul(a)
vecMul(vec, a) == [d \in 1..Len(vec) |-> Mul(vec[d], a)]

----------------------------------------------------------------------------
(* Huffman tree                                                            *)

\* The count given to nodes not yet built (1e15 in the source): above every
\* class count.  Counts are modelled on the scale 0 .. MaxCount.
SENTINEL == MaxCount + 1


\* PickMin without the comparison of counts: a leaf is taken whenever one is
\* left.
PickMin_LeafFirst(t, leaf, node) ==
  IF leaf >= 0
  THEN [m |-> leaf, leaf |-> leaf - 1, node |-> node]
  ELSE [m |-> node, leaf |-> leaf, node |-> node + 1]

\* One pass of the inner j loop of buildTree: the next child, and the two
\* pointers after taking it.
PickMin(t, leaf, node) ==
  IF leaf >= 0 /\ At(t, leaf).count < At(t, node).count
  THEN [m |-> leaf, leaf |-> leaf - 1, node |-> node]
  ELSE [m |-> node, leaf |-> leaf, node |-> node + 1]


\* MergeStep without the line tree[mini[1]].binary = true.
MergeStep_NoBinary(s, i) ==
  LET p0 == PickMin(s.tree, s.leaf, s.node)
      p1 == PickMin(s.tree, p0.leaf, p0.node)
      t1 == [s.tree EXCEPT
               ![i + 1].left = p0.m,
               ![i + 1].right = p1.m,
               ![i + 1].count = At(s.tree, p0.m).count + At(s.tree, p1.m).count]
      t2 == [t1 EXCEPT ![p0.m + 1].parent = i]
      t3 == [t2 EXCEPT ![p1.m + 1].parent = i]
  IN [tree |-> t3, leaf |-> p1.leaf, node |-> p1.node]

\* One pass of the outer loop of buildTree: internal node i is created.
MergeStep(s, i) ==
  LET p0 == PickMin(s.tree, s.leaf, s.node)
      p1 == PickMin(s.tree, p0.leaf, p0.node)
      t1 == [s.tree EXCEPT
               ![i + 1].left = p0.m,
               ![i + 1].right = p1.m,
               ![i + 1].count = At(s.tree, p0.m).count + At(s.tree, p1.m).count]
      t2 == [t1 EXCEPT ![p0.m + 1].parent = i]
      t3 == [t2 EXCEPT ![p1.m + 1].parent = i, ![p1.m + 1].binary = TRUE]
  IN [tree |-> t3, leaf |-> p1.leaf, node |-> p1.node]

RECURSIVE MergeLoop(_, _, _)
MergeLoop(s, i, osz) ==
  IF i < 2 * osz - 1 THEN MergeLoop(MergeStep(s, i), i + 1, osz) ELSE s

\* The walk from node j to the root: internal nodes met, offset by -osz.
RECURSIVE PathToRoot(_, _, _)
PathToRoot(t, j, osz) ==
  IF At(t, j).parent # -1
  THEN <<At(t, j).parent - osz>> \o PathToRoot(t, At(t, j).parent, osz)
  ELSE <<>>

\* The walk from node j to the root: binary flags met.
RECURSIVE CodeToRoot(_, _)
CodeToRoot(t, j) ==
  IF At(t, j).parent # -1
  THEN <<At(t, j).binary>> \o CodeToRoot(t, At(t, j).parent)
  ELSE <<>>

\* Model::buildTree: the tree, and the paths and codes appended.
buildTree(counts, osz, oldPaths, oldCodes) ==
  LET t0 == [i \in 1..(2 * osz - 1) |->
               [parent |-> -1, left |-> -1, right |-> -1,
                count |-> IF i <= osz THEN counts[i] ELSE SENTINEL,
                binary |-> FALSE]]
      s == MergeLoop([tree |-> t0, leaf |-> osz - 1, node |-> osz], osz, osz)
  IN [tree |-> s.tree,
      paths |-> oldPaths \o [i \in 1..osz |-> PathToRoot(s.tree, i - 1, osz)],
      codes |-> oldCodes \o [i \in 1..osz |-> CodeToRoot(s.tree, i - 1)]]

----------------------------------------------------------------------------
(* Negative-sampling table                                                 *)

RECURSIVE IsqrtIn(_, _, _)
IsqrtIn(n, lo, hi) ==
  IF lo >= hi THEN lo
  ELSE LET mid == (lo + hi + 1) \div 2
       IN IF mid * mid <= n THEN IsqrtIn(n, mid, hi) ELSE IsqrtIn(n, lo, mid - 1)

\* pow(c, 0.5) of an integer count c
pow05(c) == IsqrtIn(c * ONE * ONE, 0, c * ONE)


\* FillClass giving class i round_down(x) entries: it stops at j + 1 > x.
RECURSIVE FillClass_RoundDown(_, _, _, _)
FillClass_RoundDown(tab, i, j, x) ==
  IF Real(j + 1) <= x
  THEN FillClass_RoundDown(Append(tab, i), i, j + 1, x)
  ELSE tab

\* The inner j loop of initTableNegatives: class i is appended while j < x.
RECURSIVE FillClass(_, _, _, _)
FillClass(tab, i, j, x) ==
  IF Real(j) < x THEN FillClass(Append(tab, i), i, j + 1, x) ELSE tab

\* The outer loop of initTableNegatives over the classes i = from .. size-1.
\* With z = 0 the quotient is NaN and the comparison j < NaN is false.
RECURSIVE FillTable(_, _, _, _)
FillTable(tab, counts, i, z) ==
  IF i < Len(counts)
  THEN LET c == pow05(At(counts, i))
           x == IF z = 0 THEN 0 ELSE (c * NEGATIVE_TABLE_SIZE * ONE) \div z
       IN FillTable(FillClass(tab, i, 0, x), counts, i + 1, z)
  ELSE tab

\* The outcomes of std::shuffle: every arrangement of the table.
Shuffles(tab) ==
  {[i \in 1..Len(tab) |-> tab[p[i]]] : p \in Permutations(1..Len(tab))}

\* Model::initTableNegatives, before the shuffle
initTableNegatives(old, counts) ==
  LET z == SumSeq([i \in 1..Len(counts) |-> pow05(counts[i])])
  IN FillTable(old, counts, 0, z)

----------------------------------------------------------------------------
(* getNegative                                                             *)

\* The body of the do-while loop: one read of the table at the cursor.
getNegativeBody(pos) ==
  [negative |-> At(negatives_, pos), negpos |-> (pos + 1) % Len(negatives_)]


\* The loop condition dropped: the first entry read is returned.
getNegativeAgain_Never(target, negative) == FALSE

\* The loop condition: read again on collision with the target.
getNegativeAgain(target, negative) == target = negative

\* Model::getNegative as one call: the class returned and the cursor after.
RECURSIVE getNegative(_, _)
getNegative(target, pos) ==
  LET b == getNegativeBody(pos)
  IN IF getNegativeAgain(target, b.negative)
     THEN getNegative(target, b.negpos)
     ELSE b

\* Whether a getNegative(target) call returns: some entry is not the target.
Returns(target) == \E i \in 1..Len(negatives_) : negatives_[i] # target

\* Model::getNegative step by step.  frame.reads counts the entries read by
\* the call, up to one more than the table holds.
GetNegativeRead(target, start) ==
  LET b == getNegativeBody(negpos)
      n == IF start THEN 1
           ELSE IF frame.reads > Len(negatives_) THEN frame.reads
           ELSE frame.reads + 1
  IN /\ negpos' = b.negpos
     /\ frame' = [pc |-> IF getNegativeAgain(target, b.negative)
                         THEN "loop" ELSE "idle",
                  target |-> target,
                  negative |-> b.negative,
                  reads |-> n,
                  from |-> IF start THEN negpos ELSE frame.from]
     /\ UNCHANGED <<args, osz_, wi_, wo_, hidden_, output_, grad_, loss_,
                    nexamples_, negatives_, tree, paths, codes, heap, last>>

\* Entry into getNegative(target) and the first pass of the loop.
GetNegativeEnter(target) ==
  /\ frame.pc = "idle"
  /\ last.op = "setTargetCounts"
  /\ negatives_ # <<>>
  /\ GetNegativeRead(target, TRUE)

\* A further pass of the loop after a collision.
GetNegativeRetry ==
  /\ frame.pc = "loop"
  /\ GetNegativeRead(frame.target, FALSE)

----------------------------------------------------------------------------
(* Construction and setTargetCounts                                        *)

Idle == [pc |-> "idle", target |-> -1, negative |-> -1, reads |-> 0, from |-> 0]

NoCall ==
  [op |-> "construct", counts |-> <<>>, input |-> <<>>, target |-> -1,
   lr |-> 0, k |-> 0, threshold |-> 0, heapIn |-> <<>>, err |-> "",
   calls |-> <<>>, writes |-> <<>>, negs |-> <<>>, scan |-> <<>>,
   loss |-> 0, nupdates |-> 0, sumloss |-> 0, woIn |-> <<>>,
   negposIn |-> 0]

\* Model::Model
Model(wi, wo, a) ==
  /\ args = a
  /\ wi_ = wi
  /\ wo_ = wo
  /\ osz_ = Len(wo)
  /\ hidden_ = Zero(a.dim)
  /\ output_ = Zero(Len(wo))
  /\ grad_ = Zero(a.dim)
  /\ negpos = 0
  /\ loss_ = 0
  /\ nexamples_ = 1
  /\ negatives_ = <<>>
  /\ tree = <<>>
  /\ paths = <<>>
  /\ codes = <<>>
  /\ heap = <<>>
  /\ frame = Idle
  /\ last = NoCall

\* Model::setTargetCounts, called once, right after construction
SetTargetCounts(counts) ==
  /\ last.op = "construct"
  /\ frame.pc = "idle"
  /\ Len(counts) = osz_
  /\ IF args.loss = "ns"
     THEN \E s \in Shuffles(initTableNegatives(negatives_, counts)) :
            negatives_' = s
     ELSE UNCHANGED negatives_
  /\ IF args.loss = "hs"
     THEN LET b == buildTree(counts, osz_, paths, codes)
          IN /\ tree' = b.tree
             /\ paths' = b.paths
             /\ codes' = b.codes
     ELSE UNCHANGED <<tree, paths, codes>>
  /\ last' = [NoCall EXCEPT !.op = "setTargetCounts", !.counts = counts]
  /\ UNCHANGED <<args, osz_, wi_, wo_, hidden_, output_, grad_, loss_,
                 nexamples_, negpos, heap, frame>>

----------------------------------------------------------------------------
(* Hidden state and output distribution                                    *)

RECURSIVE addRows(_, _, _)
addRows(vec, m, input) ==
  IF input = <<>> THEN vec
  ELSE addRows(vecAddRow(vec, m, Head(input), ONE), m, Tail(input))

\* Model::computeHidden, for a non-empty input
computeHidden(wi, input, dim) ==
  vecMul(addRows(Zero(dim), wi, input), Div(ONE, Real(Len(input))))

RECURSIVE MaxSeq(_)
MaxSeq(s) ==
  IF Len(s) = 1 THEN s[1]
  ELSE LET m == MaxSeq(Tail(s)) IN IF s[1] > m THEN s[1] ELSE m

\* Model::computeOutputSoftmax
computeOutputSoftmax(wo, hidden, osz) ==
  LET o == [i \in 1..osz |-> dotRow(wo, hidden, i - 1)]
      max == MaxSeq(o)
      e == [i \in 1..osz |-> exp(o[i] - max)]
      z == SumSeq(e)
  IN [i \in 1..osz |-> Div(e[i], z)]

----------------------------------------------------------------------------
(* Training.  The operators below thread the record m of the fields an     *)
(* update touches: wi, wo, hidden, output, grad, loss, nexamples, negpos;  *)
(* ret, the value returned by the last binaryLogistic call; acc, the local *)
(* `loss` of the running strategy; and the trace of the update: calls      *)
(* (binaryLogistic calls), writes (output rows written, with the function  *)
(* writing), negs (values returned by getNegative).                        *)


\* binaryLogistic adding to the output row after the target's.
binaryLogistic_WrongRow(m, target, label, lr) ==
  LET score == sigmoid(dotRow(m.wo, m.hidden, target))
      alpha == Mul(lr, (IF label THEN ONE ELSE 0) - score)
      row == (target + 1) % Len(m.wo)
  IN [m EXCEPT
        !.grad = vecAddRow(m.grad, m.wo, target, alpha),
        !.wo = matAddRow(m.wo, m.hidden, row, alpha),
        !.ret = IF label THEN -log(score) ELSE -log(ONE - score),
        !.calls = Append(@, [target |-> target, label |-> label]),
        !.writes = Append(@, [row |-> row, by |-> "binaryLogistic"])]

\* Model::binaryLogistic; the value returned is left in ret.
binaryLogistic(m, target, label, lr) ==
  LET score == sigmoid(dotRow(m.wo, m.hidden, target))
      alpha == Mul(lr, (IF label THEN ONE ELSE 0) - score)
  IN [m EXCEPT
        !.grad = vecAddRow(m.grad, m.wo, target, alpha),
        !.wo = matAddRow(m.wo, m.hidden, target, alpha),
        !.ret = IF label THEN -log(score) ELSE -log(ONE - score),
        !.calls = Append(@, [target |-> target, label |-> label]),
        !.writes = Append(@, [row |-> target, by |-> "binaryLogistic"])]

\* loss += <value returned by the call that produced b>
addLoss(b) == [b EXCEPT !.acc = @ + b.ret]

\* binaryLogistic(getNegative(target), false, lr), g being the outcome of
\* getNegative.
nsNegative(m, g, lr) ==
  binaryLogistic([m EXCEPT !.negpos = g.negpos,
                           !.negs = Append(@, g.negative)],
                 g.negative, FALSE, lr)

\* One pass of the loop of negativeSampling.
nsStep(m, n, target, lr) ==
  IF n = 0
  THEN addLoss(binaryLogistic(m, target, TRUE, lr))
  ELSE addLoss(nsNegative(m, getNegative(target, m.negpos), lr))

RECURSIVE nsLoop(_, _, _, _, _)
nsLoop(m, n, neg, target, lr) ==
  IF n <= neg THEN nsLoop(nsStep(m, n, target, lr), n + 1, neg, target, lr)
  ELSE m

\* Model::negativeSampling; the loss is left in acc.
negativeSampling(m, target, lr) ==
  nsLoop([m EXCEPT !.acc = 0, !.grad = Zero(Len(m.grad))],
         0, args.neg, target, lr)

RECURSIVE hsLoop(_, _, _, _, _)
hsLoop(m, i, pathToRoot, binaryCode, lr) ==
  IF i < Len(pathToRoot)
  THEN hsLoop(addLoss(binaryLogistic(m, At(pathToRoot, i),
                                     At(binaryCode, i), lr)),
              i + 1, pathToRoot, binaryCode, lr)
  ELSE m

\* Model::hierarchicalSoftmax; the loss is left in acc.
hierarchicalSoftmax(m, target, lr) ==
  hsLoop([m EXCEPT !.acc = 0, !.grad = Zero(Len(m.grad))],
         0, At(paths, target), At(codes, target), lr)

\* One pass of the loop of softmax over the classes.
softmaxStep(m, i, target, lr) ==
  LET label == IF i = target THEN ONE ELSE 0
      alpha == Mul(lr, label - At(m.output, i))
  IN [m EXCEPT
        !.grad = vecAddRow(m.grad, m.wo, i, alpha),
        !.wo = matAddRow(m.wo, m.hidden, i, alpha),
        !.writes = Append(@, [row |-> i, by |-> "softmax"])]

RECURSIVE softmaxLoop(_, _, _, _)
softmaxLoop(m, i, target, lr) ==
  IF i < osz_ THEN softmaxLoop(softmaxStep(m, i, target, lr), i + 1, target, lr)
  ELSE m

\* return -log(output_[target])
softmaxLoss(m, target) == [m EXCEPT !.acc = -log(At(m.output, target))]

\* Model::softmax; the loss is left in acc.
softmax(m, target, lr) ==
  softmaxLoss(
    softmaxLoop([m EXCEPT
                   !.grad = Zero(Len(m.grad)),
                   !.output = computeOutputSoftmax(m.wo, m.hidden, osz_)],
                0, target, lr),
    target)

\* The dispatch of update on args_->loss.
lossStrategy(m, target, lr) ==
  IF args.loss = "ns" THEN negativeSampling(m, target, lr)
  ELSE IF args.loss = "hs" THEN hierarchicalSoftmax(m, target, lr)
  ELSE softmax(m, target, lr)

\* loss_ += <strategy's loss>; nexamples_ += 1
addExample(m) == [m EXCEPT !.loss = @ + m.acc, !.nexamples = @ + 1]

\* if (args_->model == model_name::sup) grad_.mul(1.0 / input.size())
scaleGrad(m, input) ==
  IF args.model = "sup"
  THEN [m EXCEPT !.grad = vecMul(@, Div(ONE, Real(Len(input))))]
  ELSE m

RECURSIVE addGrad(_, _, _)
addGrad(wi, grad, input) ==
  IF input = <<>> THEN wi
  ELSE addGrad(matAddRow(wi, grad, Head(input), ONE), grad, Tail(input))

\* The loop of update over the input: wi_->addRow(grad_, *it, 1.0)
addToInputs(m, input) == [m EXCEPT !.wi = addGrad(@, m.grad, input)]


\* update with the empty-input return placed after the example is counted.
update_CountsEmpty(m, input, target, lr) ==
  IF Len(input) = 0 THEN [m EXCEPT !.nexamples = @ + 1]
  ELSE addToInputs(
         scaleGrad(
           addExample(
             lossStrategy(
               [m EXCEPT !.hidden = computeHidden(m.wi, input, Len(m.hidden))],
               target, lr)),
           input),
         input)

\* Model::update
update(m, input, target, lr) ==
  IF Len(input) = 0 THEN m
  ELSE addToInputs(
         scaleGrad(
           addExample(
             lossStrategy(
               [m EXCEPT !.hidden = computeHidden(m.wi, input, Len(m.hidden))],
               target, lr)),
           input),
         input)

\* Model::getLoss, as the fraction loss_ / nexamples_
getLoss == [num |-> loss_, den |-> nexamples_]

\* The fields of the model an update reads and writes.
Fields ==
  [wi |-> wi_, wo |-> wo_, hidden |-> hidden_, output |-> output_,
   grad |-> grad_, loss |-> loss_, nexamples |-> nexamples_,
   negpos |-> negpos, ret |-> 0, acc |-> 0, calls |-> <<>>,
   writes |-> <<>>, negs |-> <<>>]

\* The strategy's tables are in place: setTargetCounts has been called, and
\* under negative sampling a getNegative(target) call returns.
Ready(target) ==
  /\ args.loss = "ns" => Returns(target)
  /\ args.loss = "hs" => Len(paths) = osz_

\* A call update(input, target, lr).
Update(input, target, lr) ==
  /\ frame.pc = "idle"
  /\ target >= 0
  /\ target < osz_
  /\ Ready(target)
  /\ Len(input) = 0 \/ last.nupdates < MaxUpdates
  /\ \E m \in {update(Fields, input, target, lr)} :
        /\ wi_' = m.wi
        /\ wo_' = m.wo
        /\ hidden_' = m.hidden
        /\ output_' = m.output
        /\ grad_' = m.grad
        /\ loss_' = m.loss
        /\ nexamples_' = m.nexamples
        /\ negpos' = m.negpos
        /\ last' = [NoCall EXCEPT
                      !.op = "update", !.input = input, !.target = target,
                      !.lr = lr, !.calls = m.calls, !.writes = m.writes,
                      !.negs = m.negs, !.loss = m.acc, !.woIn = wo_,
                      !.negposIn = negpos,
                      !.nupdates = last.nupdates
                                     + (IF Len(input) = 0 THEN 0 ELSE 1),
                      !.sumloss = last.sumloss + m.acc]
  /\ UNCHANGED <<args, osz_, negatives_, tree, paths, codes, heap, frame>>

----------------------------------------------------------------------------
(* Prediction.  A heap entry is the pair <<score, class>>.                 *)


\* comparePairs with the comparison turned round.
comparePairs_Less(l, r) == l[1] < r[1]

\* Model::comparePairs
comparePairs(l, r) == l[1] > r[1]

Put(h, i, v) == [h EXCEPT ![i + 1] = v]

\* std::__push_heap: value rises from the hole towards topIndex.
RECURSIVE pushHeapLoop(_, _, _, _)
pushHeapLoop(h, holeIndex, topIndex, value) ==
  IF holeIndex > topIndex
       /\ comparePairs(At(h, (holeIndex - 1) \div 2), value)
  THEN pushHeapLoop(Put(h, holeIndex, At(h, (holeIndex - 1) \div 2)),
                    (holeIndex - 1) \div 2, topIndex, value)
  ELSE Put(h, holeIndex, value)

\* std::push_heap(heap.begin(), heap.end(), comparePairs)
push_heap(h) == pushHeapLoop(h, Len(h) - 1, 0, Last(h))

\* The child of secondChild the hole moves to in std::__adjust_heap.
adjustChild(h, secondChild) ==
  IF comparePairs(At(h, 2 * (secondChild + 1)), At(h, 2 * (secondChild + 1) - 1))
  THEN 2 * (secondChild + 1) - 1
  ELSE 2 * (secondChild + 1)

\* std::__adjust_heap: the hole sinks to the bottom of the first len
\* entries, then value rises from there.
RECURSIVE adjustHeapLoop(_, _, _, _, _)
adjustHeapLoop(h, holeIndex, secondChild, len, value) ==
  IF secondChild < (len - 1) \div 2
  THEN adjustHeapLoop(
         Put(h, holeIndex, At(h, adjustChild(h, secondChild))),
         adjustChild(h, secondChild), adjustChild(h, secondChild), len, value)
  ELSE IF len % 2 = 0 /\ secondChild = (len - 2) \div 2
  THEN pushHeapLoop(
         Put(h, holeIndex, At(h, 2 * (secondChild + 1) - 1)),
         2 * (secondChild + 1) - 1, 0, value)
  ELSE pushHeapLoop(h, holeIndex, 0, value)

\* std::__pop_heap on the first len + 1 entries: the top goes to position
\* len, the entry that was there is put back into the first len.
popHeapN(h, len) ==
  IF len >= 1
  THEN adjustHeapLoop(Put(h, len, At(h, 0)), 0, 0, len, At(h, len))
  ELSE h

\* std::pop_heap(heap.begin(), heap.end(), comparePairs)
pop_heap(h) == popHeapN(h, Len(h) - 1)

\* std::sort_heap(heap.begin(), heap.end(), comparePairs)
RECURSIVE sortHeapLoop(_, _)
sortHeapLoop(h, n) == IF n > 1 THEN sortHeapLoop(popHeapN(h, n - 1), n - 1) ELSE h

sort_heap(h) == sortHeapLoop(h, Len(h))

\* if (heap.size() > k) { pop_heap; pop_back }
trim(h, k) == IF Len(h) > k THEN SubSeq(pop_heap(h), 1, Len(h) - 1) ELSE h

\* push_back, push_heap, then trim to k
pushAndTrim(h, entry, k) == trim(push_heap(Append(h, entry)), k)

\* One pass of the loop of findKBest over the classes.
findKBestStep(h, i, k, threshold, output) ==
  IF At(output, i) < threshold THEN h
  ELSE IF Len(h) = k /\ std_log(At(output, i)) < At(h, 0)[1] THEN h
  ELSE pushAndTrim(h, <<std_log(At(output, i)), i>>, k)

\* The heap after a pass of the loop, appended to the heaps of the scan.
scanned(s, h) == [s EXCEPT !.heap = h, !.scan = Append(@, h)]

\* The loop of findKBest; s.heap is the heap, s.scan the heaps left by the
\* passes so far.
RECURSIVE findKBestLoop(_, _, _, _, _)
findKBestLoop(s, i, k, threshold, output) ==
  IF i < Len(output)
  THEN findKBestLoop(
         scanned(s, findKBestStep(s.heap, i, k, threshold, output)),
         i + 1, k, threshold, output)
  ELSE s

\* Model::findKBest, given the output distribution it has computed
findKBest(k, threshold, h, output) ==
  findKBestLoop([heap |-> h, scan |-> <<>>, output |-> output],
                0, k, threshold, output)

\* f = 1. / (1 + std::exp(-wo_->dotRow(hidden, node - osz_)))
dfsF(wo, hidden, row) == Div(ONE, ONE + exp(-dotRow(wo, hidden, row)))

\* Model::dfs
RECURSIVE dfs(_, _, _, _, _, _, _)
dfs(k, threshold, node, score, h, hidden, wo) ==
  IF score < std_log(threshold) THEN h
  ELSE IF Len(h) = k /\ score < At(h, 0)[1] THEN h
  ELSE IF At(tree, node).left = -1 /\ At(tree, node).right = -1
  THEN pushAndTrim(h, <<score, node>>, k)
  ELSE dfs(k, threshold, At(tree, node).right,
           score + std_log(dfsF(wo, hidden, node - osz_)),
           dfs(k, threshold, At(tree, node).left,
               score + std_log(ONE - dfsF(wo, hidden, node - osz_)),
               h, hidden, wo),
           hidden, wo)


\* The argument checks of predict in the other order.
predictError_ModelFirst(k) ==
  IF args.model # "sup" THEN "Model needs to be supervised for prediction!"
  ELSE IF k <= 0 THEN "k needs to be 1 or higher!"
  ELSE ""

\* The argument checks of predict: the message thrown, or "" for none.
predictError(k) ==
  IF k <= 0 THEN "k needs to be 1 or higher!"
  ELSE IF args.model # "sup" THEN "Model needs to be supervised for prediction!"
  ELSE ""

\* The search of predict: the heap before sort_heap, the output buffer and
\* the heaps of the scan.
predictSearch(k, threshold, h, hidden) ==
  IF args.loss = "hs"
  THEN [heap |-> dfs(k, threshold, 2 * osz_ - 2, 0, h, hidden, wo_),
        output |-> output_,
        scan |-> <<>>]
  ELSE findKBest(k, threshold, h, computeOutputSoftmax(wo_, hidden, osz_))

\* Model::predict on the model's own buffers, for a non-empty input; h is
\* the vector the caller passes.
Predict(input, k, threshold, h) ==
  /\ frame.pc = "idle"
  /\ Len(input) > 0
  /\ args.loss = "hs" => Len(paths) = osz_
  /\ IF predictError(k) # ""
     THEN /\ heap' = h
          /\ last' = [NoCall EXCEPT
                        !.op = "predict", !.input = input, !.k = k,
                        !.threshold = threshold, !.heapIn = h,
                        !.err = predictError(k)]
          /\ UNCHANGED <<hidden_, output_>>
     ELSE \E hid \in {computeHidden(wi_, input, args.dim)} :
            \E r \in {predictSearch(k, threshold, h, hid)} :
              /\ hidden_' = hid
              /\ output_' = r.output
              /\ heap' = sort_heap(r.heap)
              /\ last' = [NoCall EXCEPT
                            !.op = "predict", !.input = input, !.k = k,
                            !.threshold = threshold, !.heapIn = h,
                            !.scan = r.scan]
  /\ UNCHANGED <<args, osz_, wi_, wo_, grad_, loss_, nexamples_, negatives_,
                 negpos, tree, paths, codes, frame>>

----------------------------------------------------------------------------
(* Tree construction over every class count vector                         *)

Args(loss, model) == [loss |-> loss, model |-> model, neg |-> 2, dim |-> 1]

Rows(n, v) == [i \in 1..n |-> <<v>>]

InitTree ==
  \E n \in 2..MaxOsz : Model(Rows(2, ONE), Rows(n, 0), Args("hs", "sup"))

NextTree == \E counts \in UNION {[1..n -> 0..MaxCount] : n \in 2..MaxOsz} :
              SetTargetCounts(counts)

SpecTree == InitTree /\ [][NextTree]_vars

----------------------------------------------------------------------------
(* Training: construction, setTargetCounts, then updates                   *)

\* Input token sequences over two tokens, the empty one included.
Inputs == {<<>>, <<0>>, <<1>>, <<0, 1>>}

\* Class counts handed to setTargetCounts in training, most frequent first.
TrainCounts == {<<2, 1, 1>>, <<1, 1, 1>>}

LearningRates == {ONE \div 2}

\* Two tokens, three classes; wo_ starts at zero as in training.
Init ==
  \E loss \in {"ns", "hs", "softmax"} : \E model \in {"sup", "sg"} :
    Model(<<<<ONE>>, <<-(ONE \div 2)>>>>, Rows(3, 0), Args(loss, model))

Next ==
  \/ \E counts \in TrainCounts : SetTargetCounts(counts)
  \/ \E input \in Inputs : \E target \in 0..(osz_ - 1) :
       \E lr \in LearningRates : Update(input, target, lr)

Spec == Init /\ [][Next]_vars

----------------------------------------------------------------------------
(* Prediction on trained models                                            *)

\* Output rows of a trained model: each row -6, 0 or 6.
Weights == {-Real(6), 0, Real(6)}

WoChoices(n) == {[i \in 1..n |-> <<w[i]>>] : w \in [1..n -> Weights]}

\* Four classes under hierarchical softmax (three rows in use, the fourth
\* is never read), three classes otherwise.
InitPredict ==
  \E loss \in {"ns", "hs", "softmax"} : \E model \in {"sup", "sg"} :
    \E wo \in WoChoices(3) :
      Model(<<<<ONE>>, <<-(ONE \div 2)>>>>,
            IF loss = "hs" THEN Append(wo, <<0>>) ELSE wo,
            Args(loss, model))

\* Class counts of the four-class model, most frequent first.
PredictCounts == {<<3, 2, 1, 1>>}

Thresholds == {0, ONE \div 4}

\* Vectors the caller passes: a fresh one, or one holding an older result.
CallerHeaps == {<<>>, <<<<-ONE, 0>>>>}

NextPredict ==
  \/ \E counts \in PredictCounts : SetTargetCounts(counts)
  \/ \E input \in {<<0>>, <<1>>} : \E k \in 0..MaxK : \E threshold \in Thresholds :
       \E h \in CallerHeaps : Predict(input, k, threshold, h)

SpecPredict == InitPredict /\ [][NextPredict]_vars

----------------------------------------------------------------------------
(* Properties of training                                                  *)

Updated == last.op = "update"

\* C4 as stated: getLoss() is the running mean of the per-example losses,
\* their sum over the updates with non-empty input divided by the number of
\* those updates, and the example counter equals that number.
C4_RunningMean ==
  (Updated /\ last.nupdates > 0) =>
    /\ nexamples_ = last.nupdates
    /\ getLoss.num * last.nupdates = last.sumloss * getLoss.den

\* C5: every value getNegative returns during an update differs from the
\* target, and so does the class of every label = false binaryLogistic call
\* of negativeSampling.
C5_NegativesAvoidTarget ==
  (Updated /\ args.loss = "ns") =>
    /\ \A i \in 1..Len(last.negs) : last.negs[i] # last.target
    /\ \A i \in 1..Len(last.calls) :
         ~last.calls[i].label => last.calls[i].target # last.target
    /\ [i \in 1..Len(last.negs) |-> last.calls[i + 1].target] = last.negs

\* An update whose first read of the table hit the target and was retried.
C5_Witness ==
  /\ Updated
  /\ args.loss = "ns"
  /\ Len(last.negs) = args.neg
  /\ At(negatives_, last.negposIn) = last.target
  /\ negpos # (last.negposIn + args.neg) % Len(negatives_)

\* C6: an update with an empty input changes neither matrix, nor the loss,
\* the example counter, the gradient and hidden buffers, the output buffer
\* or the cursor of the negative table.
C6_EmptyInputNoOp ==
  [][(last'.op = "update" /\ last'.input = <<>>) =>
       UNCHANGED <<wi_, wo_, loss_, nexamples_, grad_, hidden_, output_,
                   negpos, negatives_, tree, paths, codes>>]_vars

\* An empty update on a model that earlier updates have trained.
C6_Witness ==
  /\ Updated
  /\ last.input = <<>>
  /\ last.nupdates = MaxUpdates
  /\ wo_ # Rows(osz_, 0)
  /\ wi_ # <<<<ONE>>, <<-(ONE \div 2)>>>>

CallTargets == {last.calls[i].target : i \in 1..Len(last.calls)}

UntargetedRowsKept ==
  \A r \in 0..(osz_ - 1) : r \notin CallTargets => At(wo_, r) = At(last.woIn, r)

\* C9 as stated: under each of the three strategies every write to an output
\* row happens inside binaryLogistic, and a row that no binaryLogistic call
\* of the update targets is unchanged.
C9_OnlyBinaryLogisticWrites ==
  Updated =>
    /\ \A i \in 1..Len(last.writes) : last.writes[i].by = "binaryLogistic"
    /\ UntargetedRowsKept

\* C9 amended: under negative sampling and hierarchical softmax every write
\* to an output row happens inside binaryLogistic, one write per call to the
\* row the call targets, and untargeted rows are unchanged; under full
\* softmax no binaryLogistic call is made and softmax itself writes every
\* row 0 .. osz_-1 once.
C9_WritesPerStrategy ==
  Updated =>
    IF args.loss \in {"ns", "hs"}
    THEN /\ last.writes = [i \in 1..Len(last.calls) |->
                             [row |-> last.calls[i].target,
                              by |-> "binaryLogistic"]]
         /\ UntargetedRowsKept
    ELSE /\ last.calls = <<>>
         /\ last.input # <<>> =>
              last.writes = [i \in 1..osz_ |-> [row |-> i - 1, by |-> "softmax"]]
         /\ last.input = <<>> => last.writes = <<>>

\* A hierarchical-softmax update that changed a row on the target's path and
\* left another row alone, after an earlier update had written that row.
C9_Witness ==
  /\ Updated
  /\ args.loss = "hs"
  /\ last.nupdates = 2
  /\ Len(last.calls) = 1
  /\ \E r \in 0..(osz_ - 1) :
       /\ r \notin CallTargets
       /\ At(wo_, r) # <<0>>
  /\ \E r \in CallTargets : At(wo_, r) # At(last.woIn, r)

----------------------------------------------------------------------------
(* Properties of the Huffman tree                                          *)

TreeBuilt == last.op = "setTargetCounts" /\ args.loss = "hs"

Leaves == 0..(osz_ - 1)
Internals == osz_..(2 * osz_ - 2)

NonDecreasing(c) == \A i \in 1..(Len(c) - 1) : c[i] <= c[i + 1]
NonIncreasing(c) == \A i \in 1..(Len(c) - 1) : c[i] >= c[i + 1]

\* The nodes without a parent at the moment internal node i is created.
Avail(i) == {x \in 0..(i - 1) : At(tree, x).parent >= i}

\* Internal node i took the two smallest counts available when it was made.
TwoSmallest(i) ==
  LET l == At(tree, i).left
      r == At(tree, i).right
  IN /\ l \in Avail(i)
     /\ r \in Avail(i)
     /\ l # r
     /\ \A y \in Avail(i) \ {l, r} :
          /\ At(tree, y).count >= At(tree, l).count
          /\ At(tree, y).count >= At(tree, r).count

\* The first merge joins two leaves of least count.
LeastLeavesFirst ==
  LET l == At(tree, osz_).left
      r == At(tree, osz_).right
  IN /\ l \in Leaves
     /\ r \in Leaves
     /\ \A y \in Leaves \ {l, r} :
          /\ last.counts[y + 1] >= last.counts[l + 1]
          /\ last.counts[y + 1] >= last.counts[r + 1]

HuffmanOrder == LeastLeavesFirst /\ \A i \in Internals : TwoSmallest(i)

\* C1 as stated: with counts in non-decreasing order, the two least-frequent
\* leaves are merged first and every internal node takes the two smallest
\* counts among the nodes that have no parent yet.
C1_AscendingCountsHuffman ==
  (TreeBuilt /\ NonDecreasing(last.counts)) => HuffmanOrder

\* C1 amended: with counts in non-increasing order (class 0 the most
\* frequent), the two least-frequent leaves are merged first and every
\* internal node takes the two smallest counts among the nodes that have no
\* parent yet.
C1_DescendingCountsHuffman ==
  (TreeBuilt /\ NonIncreasing(last.counts)) => HuffmanOrder

C1_Witness ==
  /\ TreeBuilt
  /\ last.counts = <<4, 3, 2, 1>>
  /\ At(tree, 4).left = 3 /\ At(tree, 4).right = 2
  /\ At(tree, 5).left = 4 /\ At(tree, 5).right = 1
  /\ At(tree, 6).left = 0 /\ At(tree, 6).right = 5

IsPrefix(s, t) == Len(s) <= Len(t) /\ SubSeq(t, 1, Len(s)) = s

Reverse(s) == [i \in 1..Len(s) |-> s[Len(s) + 1 - i]]

\* The code of leaf i read from the root down to the leaf.
RootCode(i) == Reverse(At(codes, i))

FullBinaryTree ==
  /\ Len(tree) = 2 * osz_ - 1
  /\ At(tree, 2 * osz_ - 2).parent = -1
  /\ \A x \in 0..(2 * osz_ - 3) :
       /\ At(tree, x).parent \in Internals
       /\ At(tree, x).parent > x
       /\ Cardinality({i \in Internals :
                         At(tree, i).left = x \/ At(tree, i).right = x}) = 1
       /\ LET p == At(tree, x).parent
          IN IF At(tree, x).binary
             THEN At(tree, p).right = x
             ELSE At(tree, p).left = x
  /\ \A i \in Internals :
       /\ At(tree, i).left \in 0..(i - 1)
       /\ At(tree, i).right \in 0..(i - 1)
       /\ At(tree, i).left # At(tree, i).right
  /\ \A i \in Leaves : At(tree, i).left = -1 /\ At(tree, i).right = -1

PrefixFree ==
  /\ Len(paths) = osz_
  /\ Len(codes) = osz_
  /\ \A i \in Leaves : Len(At(paths, i)) = Len(At(codes, i))
  /\ \A i \in Leaves : \A j \in Leaves :
       i # j => ~IsPrefix(RootCode(i), RootCode(j))

\* C8: for every osz_ >= 2 and every count vector below the sentinel,
\* buildTree leaves a full binary tree rooted at node 2*osz_-2 whose leaf
\* codes, read from the root, are prefix-free, each leaf's path and code
\* having the same length.
C8_FullTreePrefixFree == TreeBuilt => (FullBinaryTree /\ PrefixFree)

C8_Witness ==
  /\ TreeBuilt
  /\ last.counts = <<1, 4, 0, 2>>
  /\ FullBinaryTree
  /\ Len(At(codes, 0)) = 1
  /\ Len(At(codes, 3)) = 3

----------------------------------------------------------------------------
(* The negative table and its cursor over every class count vector         *)

\* A three-class skipgram model trained by negative sampling.
InitNeg == Model(Rows(2, ONE), Rows(3, 0), Args("ns", "sg"))

NextNeg ==
  \/ \E counts \in [1..osz_ -> 0..MaxNegCount] : SetTargetCounts(counts)
  \/ \E target \in 0..(osz_ - 1) : GetNegativeEnter(target)
  \/ GetNegativeRetry

SpecNeg == InitNeg /\ [][NextNeg]_vars

TableBuilt == last.op = "setTargetCounts" /\ args.loss = "ns"

NonZeroClasses(c) == {i \in 1..Len(c) : c[i] > 0}

Occurs(class) == \E i \in 1..Len(negatives_) : negatives_[i] = class

\* C10: after initTableNegatives on counts with at least two non-zero classes
\* every non-zero class occurs in the table, the cursor stays inside the
\* table and has advanced by one (mod the table size) per read, and a call
\* of getNegative has returned by the time it has read |negatives_| entries.
C10_GetNegativeTerminates ==
  (TableBuilt /\ Cardinality(NonZeroClasses(last.counts)) >= 2) =>
    /\ \A i \in NonZeroClasses(last.counts) : Occurs(i - 1)
    /\ negpos \in 0..(Len(negatives_) - 1)
    /\ negpos = (frame.from + frame.reads) % Len(negatives_)
    /\ frame.reads <= Len(negatives_)
    /\ frame.pc = "loop" => frame.reads < Len(negatives_)

C10_Witness ==
  /\ TableBuilt
  /\ Cardinality(NonZeroClasses(last.counts)) = 2
  /\ frame.pc = "idle"
  /\ frame.reads = Len(negatives_)
  /\ frame.reads >= 3
  /\ frame.negative # frame.target

----------------------------------------------------------------------------
(* Properties of prediction                                                *)

\* A predict call that returned normally, started on an empty vector.
Predicted == last.op = "predict" /\ last.err = "" /\ last.heapIn = <<>>

Min(a, b) == IF a < b THEN a ELSE b

HeapClasses == {heap[i][2] : i \in 1..Len(heap)}

NonIncreasingScores(h) == \A i \in 1..(Len(h) - 1) : h[i][1] >= h[i + 1][1]

\* The log-probability of leaf i summed along its stored path and code.
RECURSIVE PathScore(_, _, _)
PathScore(path, code, n) ==
  IF n = 0 THEN 0
  ELSE PathScore(path, code, n - 1)
         + (IF code[n]
            THEN std_log(dfsF(wo_, hidden_, path[n]))
            ELSE std_log(ONE - dfsF(wo_, hidden_, path[n])))

LeafScore(i) == PathScore(At(paths, i), At(codes, i), Len(At(paths, i)))

\* The vector holds k best leaves by brute force, each with its score.
BruteForceTopK ==
  /\ Len(heap) = Min(last.k, osz_)
  /\ Cardinality(HeapClasses) = Len(heap)
  /\ \A i \in 1..Len(heap) :
       /\ heap[i][2] \in Leaves
       /\ heap[i][1] = LeafScore(heap[i][2])
  /\ \A c \in Leaves \ HeapClasses :
       \A i \in 1..Len(heap) : LeafScore(c) <= heap[i][1]

\* C2 as stated: on a hierarchical-softmax model predict with threshold 0,
\* started on an empty vector, returns the same (class, score) pairs as
\* scoring every leaf along its path and keeping the k best.
C2_DfsEqualsBruteForce ==
  (Predicted /\ args.loss = "hs" /\ last.threshold = 0) => BruteForceTopK

\* The leaves whose score, and the score of every node above them, is not
\* below std_log(threshold).
AboveThreshold(path, code, n, t) ==
  \A j \in 1..n :
    PathScore(SubSeq(path, j, n), SubSeq(code, j, n), n - j + 1) >= std_log(t)

Kept(t) ==
  {i \in Leaves :
     AboveThreshold(At(paths, i), At(codes, i), Len(At(paths, i)), t)}

\* What dfs does return: k best among the leaves no step of whose path falls
\* below std_log(threshold) = ln(threshold + 1e-5).
DfsTopKOfKept ==
  (Predicted /\ args.loss = "hs") =>
    /\ Len(heap) = Min(last.k, Cardinality(Kept(last.threshold)))
    /\ Cardinality(HeapClasses) = Len(heap)
    /\ HeapClasses \subseteq Kept(last.threshold)
    /\ \A i \in 1..Len(heap) : heap[i][1] = LeafScore(heap[i][2])
    /\ \A c \in Kept(last.threshold) \ HeapClasses :
         \A i \in 1..Len(heap) : LeafScore(c) <= heap[i][1]

\* The classes whose probability passes the threshold.
Passing == {c \in 0..(osz_ - 1) : At(output_, c) >= last.threshold}

\* C3: on a negative-sampling or full-softmax model predict, started on an
\* empty vector, returns min(k, m) entries, m the number of classes of
\* probability >= threshold; every class returned passes the threshold; no
\* passing class left out scores strictly higher than one returned; the
\* list is in non-increasing score order; and after every pass of the scan
\* the heap holds at most k entries with a least score at its front.
C3_KBestOfPassing ==
  (Predicted /\ args.loss # "hs") =>
    /\ Len(heap) = Min(last.k, Cardinality(Passing))
    /\ Cardinality(HeapClasses) = Len(heap)
    /\ HeapClasses \subseteq Passing
    /\ \A i \in 1..Len(heap) : heap[i][1] = std_log(At(output_, heap[i][2]))
    /\ \A c \in Passing \ HeapClasses :
         \A i \in 1..Len(heap) : std_log(At(output_, c)) <= heap[i][1]
    /\ NonIncreasingScores(heap)
    /\ Len(last.scan) = osz_
    /\ \A n \in 1..Len(last.scan) :
         /\ Len(last.scan[n]) <= last.k
         /\ \A j \in 1..Len(last.scan[n]) :
              last.scan[n][1][1] <= last.scan[n][j][1]

\* A scan that filled the heap, evicted an entry and skipped a class below
\* the threshold.
C3_Witness ==
  /\ Predicted
  /\ args.loss = "softmax"
  /\ last.k = 1
  /\ last.threshold > 0
  /\ Cardinality(Passing) = 2
  /\ heap[1][2] = 2
  /\ last.scan[1] # <<>>
  /\ last.scan[1] # last.scan[3]

\* C7: predict with k <= 0 or on a model that is not supervised throws
\* invalid_argument, the k check first, and leaves the caller's vector, the
\* hidden and output buffers and both matrices as they were.
C7_PredictRejects ==
  [][(last'.op = "predict" /\ (last'.k <= 0 \/ args.model # "sup")) =>
       /\ last'.err = (IF last'.k <= 0
                       THEN "k needs to be 1 or higher!"
                       ELSE "Model needs to be supervised for prediction!")
       /\ heap' = last'.heapIn
       /\ UNCHANGED <<hidden_, output_, wi_, wo_, grad_, loss_, nexamples_>>
    ]_vars

\* A rejected call on a model that is not supervised with k <= 0 as well,
\* the caller's vector holding an older result.
C7_Witness ==
  /\ last.op = "predict"
  /\ last.k <= 0
  /\ args.model # "sup"
  /\ last.err = "k needs to be 1 or higher!"
  /\ heap # <<>>
====
